---- MODULE Spec2Model ----
(***************************************************************************)
(* A model of magenta/lib/midi_io.py: the conversion of a PrettyMIDI       *)
(* object (or of the bytes of a MIDI file) to a NoteSequence,              *)
(* midi_to_sequence_proto, its file wrapper midi_file_to_sequence_proto,   *)
(* and the conversion back, sequence_proto_to_pretty_midi.                 *)
(*                                                                         *)
(* Times are seconds and are modelled by integers.  A tick scale (seconds  *)
(* per tick) is the exact rational 60 / (resolution * bpm), kept as a      *)
(* numerator and a denominator; the rounding of floating point arithmetic  *)
(* is outside the model.                                                   *)
(***************************************************************************)
EXTENDS Integers, Sequences, FiniteSets

VARIABLES
  op,                     \* the operation called last ("idle" before any call)
  midi_data,              \* the input handed to the decode operation
  continue_on_exception,  \* the flag handed to the decode operation
  outcome,                \* how the decode call ended
  logged,                 \* whether the decode call logged an error
  sequence,               \* the NoteSequence returned by decode / handed to encode
  pm,                     \* the PrettyMIDI object returned by encode
  redecoded               \* the result of decoding pm again

vars == <<op, midi_data, continue_on_exception, outcome, logged, sequence, pm,
          redecoded>>

(***************************************************************************)
(* Bounds of the model.                                                    *)
(***************************************************************************)
MaxKeys == 2          \* key signature changes of an input
MaxInstruments == 2   \* instruments of an input MIDI object
MaxEvents == 3        \* notes, pitch bends and control changes of an input MIDI object
MaxSeqEvents == 2     \* notes, pitch bends and control changes of an input NoteSequence
MaxTempos == 3        \* tempo entries of an input

(***************************************************************************)
(* Program constants.                                                      *)
(***************************************************************************)
_PRETTY_MIDI_MAJOR_TO_MINOR_OFFSET == 12
DRUM_INSTRUMENT == 9
DEFAULT_TEMPO == 120     \* pretty_midi.PrettyMIDI's initial_tempo default
MAJOR == "MAJOR"
MINOR == "MINOR"

(***************************************************************************)
(* Generic helpers.                                                        *)
(***************************************************************************)
SeqsUpTo(S, n) == UNION {[1..k -> S] : k \in 0..n}

Tail1(s) == SubSeq(s, 2, Len(s))

\* the pairs of a set of (instrument, program) keys, as Python's sorted() orders tuples
KeyLess(a, b) == a[1] < b[1] \/ (a[1] = b[1] /\ a[2] < b[2])

RECURSIVE sorted(_)
sorted(S) ==
  IF S = {} THEN <<>>
  ELSE LET m == CHOOSE a \in S : \A b \in S \ {a} : KeyLess(a, b)
       IN  <<m>> \o sorted(S \ {m})

(***************************************************************************)
(* The collaborator's object model (pretty_midi), as far as the code uses  *)
(* it.                                                                     *)
(***************************************************************************)
\* the tick scale PrettyMIDI keeps for a tempo: 60.0 / (bpm * resolution) seconds per tick
TickScale(resolution, bpm) == [num |-> 60, den |-> resolution * bpm]

\* the time of the i-th breakpoint of a tick scale table
RECURSIVE BreakTime(_, _)
BreakTime(table, i) ==
  IF i = 1 THEN (table[1].tick * table[1].scale.num) \div table[1].scale.den
  ELSE BreakTime(table, i - 1)
       + ((table[i].tick - table[i - 1].tick) * table[i - 1].scale.num)
           \div table[i - 1].scale.den

\* the last breakpoint at or before a tick (the first one when there is none)
LastAtTick(table, tick) ==
  LET at == {i \in DOMAIN table : table[i].tick <= tick}
  IN  IF at = {} THEN 1 ELSE CHOOSE i \in at : \A j \in at : j <= i

LastAtTime(table, time) ==
  LET at == {i \in DOMAIN table : BreakTime(table, i) <= time}
  IN  IF at = {} THEN 1 ELSE CHOOSE i \in at : \A j \in at : j <= i

\* PrettyMIDI.tick_to_time
tick_to_time(table, tick) ==
  LET i == LastAtTick(table, tick)
  IN  BreakTime(table, i)
      + ((tick - table[i].tick) * table[i].scale.num) \div table[i].scale.den

\* PrettyMIDI.time_to_tick
time_to_tick(table, time) ==
  LET i == LastAtTime(table, time)
  IN  table[i].tick
      + ((time - BreakTime(table, i)) * table[i].scale.den) \div table[i].scale.num

\* PrettyMIDI.get_tempo_changes: the (time, bpm) pairs of the tick scale table
get_tempo_changes(midi) ==
  [i \in DOMAIN midi.tick_scales |->
     [time |-> tick_to_time(midi.tick_scales, midi.tick_scales[i].tick),
      bpm  |-> (60 * midi.tick_scales[i].scale.den)
                 \div (midi.tick_scales[i].scale.num * midi.resolution)]]

\* pretty_midi.PrettyMIDI(resolution=..., initial_tempo=...)
PrettyMIDI(resolution, initial_tempo) ==
  [resolution |-> resolution,
   tick_scales |-> <<[tick |-> 0, scale |-> TickScale(resolution, initial_tempo)]>>,
   time_signature_changes |-> <<>>,
   key_signature_changes |-> <<>>,
   instruments |-> <<>>]

\* pretty_midi.Instrument(program, is_drum=...)
Instrument(program, is_drum) ==
  [program |-> program, is_drum |-> is_drum,
   notes |-> <<>>, pitch_bends |-> <<>>, control_changes |-> <<>>]

(***************************************************************************)
(* The NoteSequence message.                                               *)
(***************************************************************************)
NoteSequence ==
  [ticks_per_beat |-> 0, time_signatures |-> <<>>, key_signatures |-> <<>>,
   tempos |-> <<>>, total_time |-> 0, notes |-> <<>>, pitch_bends |-> <<>>,
   control_changes |-> <<>>]

NoMidi == PrettyMIDI(0, 0)

NoData == [kind |-> "none", parses |-> FALSE, midi |-> NoMidi]

NoResult == [status |-> "idle", logged |-> FALSE, value |-> NoteSequence]

(***************************************************************************)
(* midi_to_sequence_proto                                                  *)
(***************************************************************************)
\* KeySignature with a division that truncates towards zero: -11..-1 give mode 0
KeySignatureTruncating(midi_key) ==
  LET midi_mode == IF midi_key.key_number < 0
                   THEN -((-midi_key.key_number) \div 12)
                   ELSE midi_key.key_number \div 12
  IN  [time |-> midi_key.time,
       key |-> midi_key.key_number % 12,
       mode |-> IF midi_mode = 0 THEN MAJOR
                ELSE IF midi_mode = 1 THEN MINOR
                ELSE "invalid"]

\* one key signature change: key, and the mode from key_number / 12;
\* "invalid" stands for the raise of MIDIConversionError('Invalid midi_mode')
KeySignature(midi_key) ==
  LET midi_mode == midi_key.key_number \div 12
  IN  [time |-> midi_key.time,
       key |-> midi_key.key_number % 12,
       mode |-> IF midi_mode = 0 THEN MAJOR
                ELSE IF midi_mode = 1 THEN MINOR
                ELSE "invalid"]

\* the loop over midi.key_signature_changes: it stops at the first invalid mode
RECURSIVE PopulateKeySignatures(_, _)
PopulateKeySignatures(changes, done) ==
  IF changes = <<>> THEN [raised |-> FALSE, key_signatures |-> done]
  ELSE LET ks == KeySignature(Head(changes))
       IN  IF ks.mode = "invalid"
           THEN [raised |-> TRUE, key_signatures |-> Append(done, ks)]
           ELSE PopulateKeySignatures(Tail(changes), Append(done, ks))

PopulateTimeSignatures(changes) ==
  [i \in DOMAIN changes |->
     [time |-> changes[i].time, numerator |-> changes[i].numerator,
      denominator |-> changes[i].denominator]]

PopulateTempos(midi) ==
  LET changes == get_tempo_changes(midi)
  IN  [i \in DOMAIN changes |-> [time |-> changes[i].time, bpm |-> changes[i].bpm]]

\* Gather with the instruments counted from 1
RECURSIVE GatherOneBased(_, _, _)
GatherOneBased(instruments, field, n) ==
  IF n > Len(instruments) THEN <<>>
  ELSE [i \in DOMAIN instruments[n][field] |->
          [program |-> instruments[n].program, instrument |-> n,
           event |-> instruments[n][field][i]]]
       \o GatherOneBased(instruments, field, n + 1)

\* the (program, num_instrument, event) triples gathered over the instruments,
\* instrument by instrument; field is "notes", "pitch_bends" or "control_changes"
RECURSIVE Gather(_, _, _)
Gather(instruments, field, n) ==
  IF n > Len(instruments) THEN <<>>
  ELSE [i \in DOMAIN instruments[n][field] |->
          [program |-> instruments[n].program, instrument |-> n - 1,
           event |-> instruments[n][field][i]]]
       \o Gather(instruments, field, n + 1)

\* one step of the running total_time
NextTotalTime(total_time, end) ==
  IF total_time = 0 \/ end > total_time THEN end ELSE total_time

RECURSIVE TotalTime(_, _)
TotalTime(midi_notes, total_time) ==
  IF midi_notes = <<>> THEN total_time
  ELSE TotalTime(Tail(midi_notes), NextTotalTime(total_time, Head(midi_notes).event.end))

SequenceNote(t) ==
  [instrument |-> t.instrument, program |-> t.program,
   start_time |-> t.event.start, end_time |-> t.event.end,
   pitch |-> t.event.pitch, velocity |-> t.event.velocity]

SequencePitchBend(t) ==
  [instrument |-> t.instrument, program |-> t.program,
   time |-> t.event.time, bend |-> t.event.pitch]

SequenceControlChange(t) ==
  [instrument |-> t.instrument, program |-> t.program, time |-> t.event.time,
   control_number |-> t.event.number, control_value |-> t.event.value]

\* the conversion of a parsed PrettyMIDI object (lines 82-161)
ConvertMidi(midi) ==
  LET keys == PopulateKeySignatures(midi.key_signature_changes, <<>>)
      midi_notes == Gather(midi.instruments, "notes", 1)
      midi_pitch_bends == Gather(midi.instruments, "pitch_bends", 1)
      midi_control_changes == Gather(midi.instruments, "control_changes", 1)
  IN  IF keys.raised
      THEN [status |-> "raised", logged |-> FALSE, value |-> NoteSequence]
      ELSE [status |-> "returned", logged |-> FALSE,
            value |->
              [ticks_per_beat |-> midi.resolution,
               time_signatures |-> PopulateTimeSignatures(midi.time_signature_changes),
               key_signatures |-> keys.key_signatures,
               tempos |-> PopulateTempos(midi),
               total_time |-> TotalTime(midi_notes, 0),
               notes |-> [i \in DOMAIN midi_notes |-> SequenceNote(midi_notes[i])],
               pitch_bends |->
                 [i \in DOMAIN midi_pitch_bends |-> SequencePitchBend(midi_pitch_bends[i])],
               control_changes |->
                 [i \in DOMAIN midi_control_changes |->
                    SequenceControlChange(midi_control_changes[i])]]]

\* ParseFailure with the flag ignored: the failure is always raised
ParseFailureAlwaysRaised(coe) ==
  [status |-> "raised", logged |-> FALSE, value |-> NoteSequence]

\* what the bare except does with a failure of pretty_midi.PrettyMIDI(StringIO(...))
ParseFailure(coe) ==
  IF coe THEN [status |-> "none", logged |-> TRUE, value |-> NoteSequence]
  ELSE [status |-> "raised", logged |-> FALSE, value |-> NoteSequence]

\* midi_to_sequence_proto with the whole conversion inside the try block
midi_to_sequence_proto_catch_all(data, coe) ==
  LET r == IF data.kind = "object" \/ data.parses
           THEN ConvertMidi(data.midi)
           ELSE ParseFailure(coe)
  IN  IF r.status = "raised" THEN ParseFailure(coe) ELSE r

midi_to_sequence_proto(data, coe) ==
  IF data.kind = "object" THEN ConvertMidi(data.midi)
  ELSE IF data.parses THEN ConvertMidi(data.midi)
  ELSE ParseFailure(coe)

(***************************************************************************)
(* midi_file_to_sequence_proto                                             *)
(***************************************************************************)
\* the except clause around the call of midi_to_sequence_proto
CatchConversionError(coe) ==
  IF coe THEN [status |-> "none", logged |-> FALSE, value |-> NoteSequence]
  ELSE [status |-> "raised", logged |-> FALSE, value |-> NoteSequence]

\* the file's contents are handed over with continue_on_exception left at its default
midi_file_to_sequence_proto(data, coe) ==
  LET r == midi_to_sequence_proto(data, FALSE)
  IN  IF r.status = "raised" THEN CatchConversionError(coe) ELSE r

(***************************************************************************)
(* sequence_proto_to_pretty_midi                                           *)
(***************************************************************************)
\* the initial_tempo keyword: set only when the first tempo is at time 0
InitialTempo(seq) ==
  IF seq.tempos # <<>> /\ seq.tempos[1].time = 0
  THEN seq.tempos[1].bpm
  ELSE DEFAULT_TEMPO

EncodeTimeSignatures(seq) ==
  [i \in DOMAIN seq.time_signatures |->
     [numerator |-> seq.time_signatures[i].numerator,
      denominator |-> seq.time_signatures[i].denominator,
      time |-> seq.time_signatures[i].time]]

\* KeyNumber with the offset on the wrong mode
KeyNumberOffsetOnMajor(seq_key) ==
  IF seq_key.mode = MAJOR
  THEN seq_key.key + _PRETTY_MIDI_MAJOR_TO_MINOR_OFFSET
  ELSE seq_key.key

\* the key number handed to pretty_midi.containers.KeySignature
KeyNumber(seq_key) ==
  IF seq_key.mode = MINOR
  THEN seq_key.key + _PRETTY_MIDI_MAJOR_TO_MINOR_OFFSET
  ELSE seq_key.key

EncodeKeySignatures(seq) ==
  [i \in DOMAIN seq.key_signatures |->
     [key_number |-> KeyNumber(seq.key_signatures[i]),
      time |-> seq.key_signatures[i].time]]

\* LaterTempos without the slice: the first tempo is appended once more
LaterTemposFromFirst(seq) == IF Len(seq.tempos) > 1 THEN seq.tempos ELSE <<>>

\* the tempos the loop over sequence.tempos[1:] runs through
LaterTempos(seq) == IF Len(seq.tempos) > 1 THEN Tail1(seq.tempos) ELSE <<>>

\* the loop appending (tick, tick_scale) to pm._PrettyMIDI__tick_scales
RECURSIVE AppendTickScales(_, _, _)
AppendTickScales(table, resolution, tempos) ==
  IF tempos = <<>> THEN table
  ELSE AppendTickScales(
         Append(table, [tick |-> time_to_tick(table, Head(tempos).time),
                        scale |-> TickScale(resolution, Head(tempos).bpm)]),
         resolution, Tail(tempos))

\* the keys of instrument_events
EventKeys(seq) ==
  {<<seq.notes[i].instrument, seq.notes[i].program>> : i \in DOMAIN seq.notes}
  \cup {<<seq.pitch_bends[i].instrument, seq.pitch_bends[i].program>> :
          i \in DOMAIN seq.pitch_bends}
  \cup {<<seq.control_changes[i].instrument, seq.control_changes[i].program>> :
          i \in DOMAIN seq.control_changes}

HasKey(e, key) == e.instrument = key[1] /\ e.program = key[2]

\* PrettyNote with velocity and pitch handed over in each other's place
PrettyNoteSwapped(seq_note) ==
  [velocity |-> seq_note.pitch, pitch |-> seq_note.velocity,
   start |-> seq_note.start_time, end |-> seq_note.end_time]

PrettyNote(seq_note) ==
  [velocity |-> seq_note.velocity, pitch |-> seq_note.pitch,
   start |-> seq_note.start_time, end |-> seq_note.end_time]

PrettyPitchBend(seq_bend) == [pitch |-> seq_bend.bend, time |-> seq_bend.time]

PrettyControlChange(seq_cc) ==
  [number |-> seq_cc.control_number, value |-> seq_cc.control_value,
   time |-> seq_cc.time]

\* instrument_events[key]['notes'], ['bends'] and ['controls']
RECURSIVE MapSeq(_, _)
MapSeq(s, kind) ==
  IF s = <<>> THEN <<>>
  ELSE <<CASE kind = "notes" -> PrettyNote(Head(s))
           [] kind = "bends" -> PrettyPitchBend(Head(s))
           [] OTHER -> PrettyControlChange(Head(s))>>
       \o MapSeq(Tail(s), kind)

KeyNotes(seq, key) ==
  MapSeq(SelectSeq(seq.notes, LAMBDA e : HasKey(e, key)), "notes")

KeyBends(seq, key) ==
  MapSeq(SelectSeq(seq.pitch_bends, LAMBDA e : HasKey(e, key)), "bends")

KeyControls(seq, key) ==
  MapSeq(SelectSeq(seq.control_changes, LAMBDA e : HasKey(e, key)), "controls")

\* whether the loop creates a new Instrument for a key, or writes to the one in hand
CreatesInstrument(key) == key[1] > 0

\* the body of the loop over sorted(instrument_events.keys()): cur is the place in
\* pm.instruments of the Instrument the variable instrument refers to
AttachKey(seq, key, instruments, cur) ==
  LET fresh == CreatesInstrument(key)
      list == IF fresh
              THEN Append(instruments, Instrument(key[2], key[1] = DRUM_INSTRUMENT))
              ELSE instruments
      at == IF fresh THEN Len(list) ELSE cur
  IN  [instruments |->
         [list EXCEPT ![at] =
            [@ EXCEPT !.program = key[2],
                      !.notes = KeyNotes(seq, key),
                      !.pitch_bends = KeyBends(seq, key),
                      !.control_changes = KeyControls(seq, key)]],
       cur |-> at]

RECURSIVE AttachKeys(_, _, _, _)
AttachKeys(seq, keys, instruments, cur) ==
  IF keys = <<>> THEN instruments
  ELSE LET step == AttachKey(seq, Head(keys), instruments, cur)
       IN  AttachKeys(seq, Tail(keys), step.instruments, step.cur)

sequence_proto_to_pretty_midi(seq) ==
  LET new == PrettyMIDI(seq.ticks_per_beat, InitialTempo(seq))
  IN  [new EXCEPT
         !.time_signature_changes = EncodeTimeSignatures(seq),
         !.key_signature_changes = EncodeKeySignatures(seq),
         !.tick_scales = AppendTickScales(new.tick_scales, new.resolution,
                                          LaterTempos(seq)),
         !.instruments = AttachKeys(seq, sorted(EventKeys(seq)),
                                    <<Instrument(0, FALSE)>>, 1)]

(***************************************************************************)
(* The calls.  A run is one decode or encode call from the idle state,     *)
(* then the encoding of a decoded sequence, then the decoding of the       *)
(* encoded object.                                                         *)
(***************************************************************************)
Init ==
  /\ op = "idle"
  /\ midi_data = NoData
  /\ continue_on_exception = FALSE
  /\ outcome = "idle"
  /\ logged = FALSE
  /\ sequence = NoteSequence
  /\ pm = NoMidi
  /\ redecoded = NoResult

\* midi_to_sequence_proto(midi_data, continue_on_exception)
Decode(Inputs, Flags) ==
  /\ op = "idle"
  /\ \E data \in Inputs, coe \in Flags :
       LET r == midi_to_sequence_proto(data, coe)
       IN  /\ op' = "midi_to_sequence_proto"
           /\ midi_data' = data
           /\ continue_on_exception' = coe
           /\ outcome' = r.status
           /\ logged' = r.logged
           /\ sequence' = r.value
  /\ UNCHANGED <<pm, redecoded>>

\* midi_file_to_sequence_proto(midi_file, continue_on_exception): midi_data is
\* what the file holds
DecodeFile(Inputs, Flags) ==
  /\ op = "idle"
  /\ \E data \in {d \in Inputs : d.kind = "bytes"}, coe \in Flags :
       LET r == midi_file_to_sequence_proto(data, coe)
       IN  /\ op' = "midi_file_to_sequence_proto"
           /\ midi_data' = data
           /\ continue_on_exception' = coe
           /\ outcome' = r.status
           /\ logged' = r.logged
           /\ sequence' = r.value
  /\ UNCHANGED <<pm, redecoded>>

\* sequence_proto_to_pretty_midi on the sequence a decode call returned
EncodeDecoded ==
  /\ op \in {"midi_to_sequence_proto", "midi_file_to_sequence_proto"}
  /\ outcome = "returned"
  /\ op' = "sequence_proto_to_pretty_midi"
  /\ pm' = sequence_proto_to_pretty_midi(sequence)
  /\ UNCHANGED <<midi_data, continue_on_exception, outcome, logged, sequence,
                 redecoded>>

\* sequence_proto_to_pretty_midi on a sequence of the caller's
Encode(Sequences) ==
  /\ op = "idle"
  /\ \E seq \in Sequences :
       /\ sequence' = seq
       /\ pm' = sequence_proto_to_pretty_midi(seq)
  /\ op' = "sequence_proto_to_pretty_midi"
  /\ UNCHANGED <<midi_data, continue_on_exception, outcome, logged, redecoded>>

\* midi_to_sequence_proto on the PrettyMIDI object the encoder returned
DecodeEncoded ==
  /\ op = "sequence_proto_to_pretty_midi"
  /\ op' = "redecode"
  /\ redecoded' = midi_to_sequence_proto(
                    [kind |-> "object", parses |-> FALSE, midi |-> pm], FALSE)
  /\ UNCHANGED <<midi_data, continue_on_exception, outcome, logged, sequence, pm>>

(***************************************************************************)
(* Inputs.  The sets of inputs take their bounds as parameters.            *)
(***************************************************************************)
\* a PrettyMIDI object with nothing in it
EmptyMidi == PrettyMIDI(480, DEFAULT_TEMPO)

Resolution == EmptyMidi.resolution

\* an object handed over as it is (the parser would not take it), the bytes of a
\* file that parses to it, and bytes the parser fails on
Input(kind, midi) ==
  CASE kind = "object" -> [kind |-> "object", parses |-> FALSE, midi |-> midi]
    [] kind = "bytes" -> [kind |-> "bytes", parses |-> TRUE, midi |-> midi]
    [] OTHER -> [kind |-> "bytes", parses |-> FALSE, midi |-> NoMidi]

\* key signature changes
KeyNumbers == -2..25
KeyTimes == {1}
KeyChanges == {[key_number |-> k, time |-> t] : k \in KeyNumbers, t \in KeyTimes}

KeyInputs(n) ==
  {Input(kind, [EmptyMidi EXCEPT !.key_signature_changes = ks]) :
     kind \in {"object", "bytes", "garbage"}, ks \in SeqsUpTo(KeyChanges, n)}

SeqKeys ==
  {[time |-> t, key |-> k, mode |-> m] : t \in KeyTimes, k \in 0..11, m \in {MAJOR, MINOR}}

KeySequences(n) ==
  {[NoteSequence EXCEPT !.ticks_per_beat = Resolution, !.key_signatures = ks] :
     ks \in SeqsUpTo(SeqKeys, n)}

\* instruments, notes, pitch bends and control changes: the events of an object
\* are laid out in one list, each owned by an instrument, instrument by instrument
Programs == {0, 5}

\* the nondecreasing owner lists of length k over instruments lo..m
RECURSIVE Owners(_, _, _)
Owners(k, lo, m) ==
  IF k = 0 THEN {<<>>}
  ELSE UNION {{<<o>> \o rest : rest \in Owners(k - 1, o, m)} : o \in lo..m}

RECURSIVE EventsOf(_, _, _, _)
EventsOf(flat, owner, n, type) ==
  IF flat = <<>> THEN <<>>
  ELSE (IF Head(owner) = n /\ Head(flat).type = type
        THEN <<Head(flat).event>> ELSE <<>>)
       \o EventsOf(Tail(flat), Tail(owner), n, type)

BuildInstruments(flat, owner, programs) ==
  [n \in DOMAIN programs |->
     [program |-> programs[n], is_drum |-> FALSE,
      notes |-> EventsOf(flat, owner, n, "notes"),
      pitch_bends |-> EventsOf(flat, owner, n, "pitch_bends"),
      control_changes |-> EventsOf(flat, owner, n, "control_changes")]]

\* who owns the events and which program each instrument has
Layouts(maxEvents, maxInstruments) ==
  UNION {
    {[k |-> k, owner |-> owner, programs |-> programs] :
       owner \in Owners(k, 1, m), programs \in [1..m -> Programs]} :
    k \in 0..maxEvents, m \in 0..maxInstruments}

InstrumentLists(Flats, maxEvents, maxInstruments) ==
  {BuildInstruments(x[1], x[2].owner, x[2].programs) :
     x \in {y \in Flats \X Layouts(maxEvents, maxInstruments) : Len(y[1]) = y[2].k}}

\* notes: the second starts before the first; end times of 0 and below 0 occur
Notes ==
  {[type |-> "notes", event |-> [velocity |-> 100, pitch |-> 60, start |-> 1, end |-> 2]],
   [type |-> "notes", event |-> [velocity |-> 80, pitch |-> 62, start |-> 0, end |-> 0]],
   [type |-> "notes", event |-> [velocity |-> 90, pitch |-> 64, start |-> -1, end |-> -1]]}

Bpms == {90, 120}

NoteInputs(maxEvents, maxInstruments) ==
  {Input("object",
         [EmptyMidi EXCEPT
            !.instruments = list,
            !.tick_scales = <<[tick |-> 0, scale |-> TickScale(Resolution, bpm)]>>]) :
     list \in InstrumentLists(SeqsUpTo(Notes, maxEvents), maxEvents, maxInstruments),
     bpm \in Bpms}

\* events of the three types, told apart by the time they carry: the i-th event
\* of a list is at time i, or at time -i when the list runs backwards in time
EventTypes == {"notes", "pitch_bends", "control_changes"}

EventAt(type, time) ==
  CASE type = "notes" ->
         [velocity |-> 100, pitch |-> 60, start |-> time, end |-> time + 1]
    [] type = "pitch_bends" -> [pitch |-> 200, time |-> time]
    [] OTHER -> [number |-> 7, value |-> 64, time |-> time]

EventLists(maxEvents) ==
  {[i \in DOMAIN types |-> [type |-> types[i], event |-> EventAt(types[i], dir * i)]] :
     types \in SeqsUpTo(EventTypes, maxEvents), dir \in {1, -1}}

EventInputs(maxEvents, maxInstruments) ==
  {Input("object", [EmptyMidi EXCEPT !.instruments = list]) :
     list \in InstrumentLists(EventLists(maxEvents), maxEvents, maxInstruments)}

\* the events of a NoteSequence of the caller's: any instrument and program on each
InstrumentIds == {0, 2, DRUM_INSTRUMENT}
SeqPrograms == {5, 7}

SeqEvents ==
  {[type |-> t, instrument |-> i, program |-> p] :
     t \in EventTypes, i \in InstrumentIds, p \in SeqPrograms}

RECURSIVE SeqEventsOf(_, _, _)
SeqEventsOf(flat, type, i) ==
  IF i > Len(flat) THEN <<>>
  ELSE (IF flat[i].type = type
        THEN <<[program |-> flat[i].program, instrument |-> flat[i].instrument,
                event |-> EventAt(type, i)]>>
        ELSE <<>>)
       \o SeqEventsOf(flat, type, i + 1)

BuildSequence(flat) ==
  LET ns == SeqEventsOf(flat, "notes", 1)
      bs == SeqEventsOf(flat, "pitch_bends", 1)
      cs == SeqEventsOf(flat, "control_changes", 1)
  IN  [NoteSequence EXCEPT
         !.ticks_per_beat = Resolution,
         !.tempos = <<[time |-> 0, bpm |-> DEFAULT_TEMPO]>>,
         !.total_time = TotalTime(ns, 0),
         !.notes = [i \in DOMAIN ns |-> SequenceNote(ns[i])],
         !.pitch_bends = [i \in DOMAIN bs |-> SequencePitchBend(bs[i])],
         !.control_changes = [i \in DOMAIN cs |-> SequenceControlChange(cs[i])]]

EventSequences(n) == {BuildSequence(flat) : flat \in SeqsUpTo(SeqEvents, n)}

\* tempos: entries at strictly ascending times, the first at time 0 or later
Resolutions == {220, Resolution}

TempoEntries(n) == {[time |-> t, bpm |-> b] : t \in 0..n, b \in Bpms}

TempoLists(n) ==
  {ts \in SeqsUpTo(TempoEntries(n), n) :
     \A i \in DOMAIN ts : \A j \in DOMAIN ts : i < j => ts[i].time < ts[j].time}

\* the tick at which the i-th tempo of a list starts, at a resolution
RECURSIVE TickOf(_, _, _)
TickOf(resolution, ts, i) ==
  IF i = 1 THEN 0
  ELSE TickOf(resolution, ts, i - 1)
       + ((ts[i].time - ts[i - 1].time) * resolution * ts[i - 1].bpm) \div 60

TimeSignatureLists ==
  {<<>>,
   <<[numerator |-> 4, denominator |-> 4, time |-> 0]>>,
   <<[numerator |-> 4, denominator |-> 4, time |-> 0],
     [numerator |-> 3, denominator |-> 8, time |-> 2]>>}

\* the objects a parser gives for a tempo map: it always starts at tick 0
TempoInputs(n) ==
  {Input("object",
         [PrettyMIDI(r, DEFAULT_TEMPO) EXCEPT
            !.tick_scales =
               [i \in DOMAIN ts |->
                  [tick |-> TickOf(r, ts, i), scale |-> TickScale(r, ts[i].bpm)]],
            !.time_signature_changes = sig]) :
     r \in Resolutions,
     ts \in {l \in TempoLists(n) : l # <<>> /\ l[1].time = 0},
     sig \in TimeSignatureLists}

TempoSequences(n) ==
  {[NoteSequence EXCEPT
      !.ticks_per_beat = r,
      !.tempos = ts,
      !.time_signatures =
         [i \in DOMAIN sig |->
            [time |-> sig[i].time, numerator |-> sig[i].numerator,
             denominator |-> sig[i].denominator]]] :
     r \in Resolutions, ts \in TempoLists(n), sig \in TimeSignatureLists}

(***************************************************************************)
(* The specifications: the same calls, on inputs that vary the key         *)
(* signatures (Spec), the notes (SpecNotes), the events of the three types *)
(* (SpecEvents) and the tempos (SpecTempos).                               *)
(***************************************************************************)
Next ==
  \/ Decode(KeyInputs(MaxKeys), BOOLEAN)
  \/ DecodeFile(KeyInputs(MaxKeys), BOOLEAN)
  \/ EncodeDecoded
  \/ Encode(KeySequences(MaxKeys))
  \/ DecodeEncoded

Spec == Init /\ [][Next]_vars

NextNotes ==
  \/ Decode(NoteInputs(MaxEvents, MaxInstruments), {FALSE})
  \/ EncodeDecoded
  \/ DecodeEncoded

SpecNotes == Init /\ [][NextNotes]_vars

NextEvents ==
  \/ Decode(EventInputs(MaxEvents, MaxInstruments), {FALSE})
  \/ EncodeDecoded
  \/ Encode(EventSequences(MaxSeqEvents))
  \/ DecodeEncoded

SpecEvents == Init /\ [][NextEvents]_vars

NextTempos ==
  \/ Decode(TempoInputs(MaxTempos), {FALSE})
  \/ EncodeDecoded
  \/ Encode(TempoSequences(MaxTempos))
  \/ DecodeEncoded

SpecTempos == Init /\ [][NextTempos]_vars

(***************************************************************************)
(* Properties of the key signatures and of the error handling, under Spec. *)
(***************************************************************************)
Decoding == op \in {"midi_to_sequence_proto", "midi_file_to_sequence_proto"}

\* the input reached the conversion: an object, or bytes the parser accepts
Parsed == midi_data.kind = "object" \/ midi_data.parses

ValidKeyNumber(k) == k >= 0 /\ k <= 23

InputKeys == midi_data.midi.key_signature_changes

\* the input holds a key signature whose mode is neither 0 nor 1
HoldsInvalidKey ==
  Parsed /\ \E i \in DOMAIN InputKeys : ~ValidKeyNumber(InputKeys[i].key_number)

\* C1, as stated: under every decode operation and either value of
\* continue_on_exception, an input holding a key signature with an invalid mode
\* ends in a raised MIDIConversionError, never in None.
InvalidKeyModeNeverSuppressed ==
  (Decoding /\ HoldsInvalidKey) => outcome = "raised"

\* C1, amended: midi_to_sequence_proto raises for either value of
\* continue_on_exception and midi_file_to_sequence_proto raises when
\* continue_on_exception is false; midi_file_to_sequence_proto with
\* continue_on_exception true returns None.
InvalidKeyModeSuppressedOnlyByFile ==
  (Decoding /\ HoldsInvalidKey) =>
    IF op = "midi_file_to_sequence_proto" /\ continue_on_exception
    THEN outcome = "none"
    ELSE outcome = "raised"

InvalidKeyModeRaisedUnderFlag ==
  /\ op = "midi_to_sequence_proto"
  /\ continue_on_exception
  /\ HoldsInvalidKey
  /\ outcome = "raised"

\* C2: midi_to_sequence_proto on bytes the parser fails on logs and returns None
\* when continue_on_exception is true and raises when it is false; on a
\* PrettyMIDI object nothing is parsed: nothing is logged, None is never
\* returned, and an error is raised only for an invalid key mode.
ParseFailureFollowsFlag ==
  op = "midi_to_sequence_proto" =>
    /\ (midi_data.kind = "bytes" /\ ~midi_data.parses) =>
         /\ continue_on_exception => (outcome = "none" /\ logged)
         /\ ~continue_on_exception => (outcome = "raised" /\ ~logged)
    /\ midi_data.kind = "object" =>
         /\ outcome # "none"
         /\ ~logged
         /\ outcome = "raised" <=> HoldsInvalidKey

UnparseableSuppressed ==
  /\ op = "midi_to_sequence_proto"
  /\ midi_data.kind = "bytes"
  /\ ~midi_data.parses
  /\ continue_on_exception
  /\ outcome = "none"

\* C4: a key_number in 0..23 decodes to key = key_number mod 12 and to MAJOR
\* below 12, MINOR from 12 on; a key_number of 24 or more, or a negative one,
\* makes the decode raise.
KeySignatureDecode ==
  (op = "midi_to_sequence_proto" /\ Parsed) =>
    IF \A i \in DOMAIN InputKeys : ValidKeyNumber(InputKeys[i].key_number)
    THEN /\ outcome = "returned"
         /\ Len(sequence.key_signatures) = Len(InputKeys)
         /\ \A i \in DOMAIN InputKeys :
              LET k == InputKeys[i].key_number
              IN  /\ sequence.key_signatures[i].key = IF k < 12 THEN k ELSE k - 12
                  /\ sequence.key_signatures[i].mode = IF k < 12 THEN MAJOR ELSE MINOR
    ELSE outcome = "raised"

MinorKeyDecoded ==
  /\ op = "midi_to_sequence_proto"
  /\ outcome = "returned"
  /\ \E i \in DOMAIN InputKeys :
       /\ InputKeys[i].key_number >= 12
       /\ sequence.key_signatures[i].mode = MINOR

\* C5: encoding a key signature gives key_number = key for MAJOR and key + 12
\* for MINOR at the same time, and decoding that gives the key signature back;
\* encoding the decoded key signatures of key numbers in 0..23 gives the key
\* numbers back.
KeySignatureRoundTrip ==
  /\ (op \in {"sequence_proto_to_pretty_midi", "redecode"} /\ outcome = "idle") =>
       /\ Len(pm.key_signature_changes) = Len(sequence.key_signatures)
       /\ \A i \in DOMAIN sequence.key_signatures :
            LET k == sequence.key_signatures[i]
            IN  /\ pm.key_signature_changes[i].time = k.time
                /\ pm.key_signature_changes[i].key_number =
                     IF k.mode = MAJOR THEN k.key ELSE k.key + 12
  /\ (op = "redecode" /\ outcome = "idle") =>
       /\ redecoded.status = "returned"
       /\ redecoded.value.key_signatures = sequence.key_signatures
  /\ (op = "sequence_proto_to_pretty_midi" /\ outcome = "returned") =>
       pm.key_signature_changes = InputKeys

MinorKeyRoundTrip ==
  /\ op = "redecode"
  /\ outcome = "idle"
  /\ \E i \in DOMAIN sequence.key_signatures : sequence.key_signatures[i].mode = MINOR
  /\ redecoded.value.key_signatures = sequence.key_signatures

(***************************************************************************)
(* Properties of the notes, under SpecNotes.                               *)
(***************************************************************************)
Decoded == Decoding /\ outcome = "returned"

MaxEnd(notes) ==
  CHOOSE e \in {notes[i].end_time : i \in DOMAIN notes} :
    \A i \in DOMAIN notes : notes[i].end_time <= e

\* C3, as stated: the total_time of a decoded sequence is the greatest end_time
\* of its notes, and 0 when it has no notes.
TotalTimeIsMaxEnd ==
  Decoded =>
    sequence.total_time = IF sequence.notes = <<>> THEN 0 ELSE MaxEnd(sequence.notes)

\* C3 where no note ends before time 0: there the total_time is the greatest end_time.
TotalTimeIsMaxEndFromZero ==
  (Decoded /\ \A i \in DOMAIN sequence.notes : sequence.notes[i].end_time >= 0) =>
    sequence.total_time = IF sequence.notes = <<>> THEN 0 ELSE MaxEnd(sequence.notes)

NoteTuple(note) == <<note.pitch, note.velocity, note.start_time, note.end_time>>

Count(notes, tuple) == Cardinality({i \in DOMAIN notes : NoteTuple(notes[i]) = tuple})

SameNoteTuples(a, b) ==
  /\ Len(a) = Len(b)
  /\ \A i \in DOMAIN a : Count(a, NoteTuple(a[i])) = Count(b, NoteTuple(a[i]))

TemposAtZero(seq) == {seq.tempos[i].bpm : i \in {j \in DOMAIN seq.tempos : seq.tempos[j].time = 0}}

\* C7: encoding a decoded sequence and decoding the result gives a sequence with
\* the same total_time, the same tempo at time 0 and the same notes as
\* (pitch, velocity, start_time, end_time) tuples, whatever their order.
RoundTrip ==
  (op = "redecode" /\ outcome = "returned") =>
    /\ redecoded.status = "returned"
    /\ redecoded.value.total_time = sequence.total_time
    /\ TemposAtZero(sequence) # {}
    /\ TemposAtZero(redecoded.value) = TemposAtZero(sequence)
    /\ SameNoteTuples(sequence.notes, redecoded.value.notes)

\* a round trip of notes on two instruments, the first of which has none, at 90 bpm
RoundTripMovesInstrument ==
  /\ op = "redecode"
  /\ outcome = "returned"
  /\ Len(sequence.notes) >= 2
  /\ \A i \in DOMAIN sequence.notes : sequence.notes[i].instrument = 1
  /\ \A i \in DOMAIN redecoded.value.notes : redecoded.value.notes[i].instrument = 1
  /\ sequence.notes[1] # sequence.notes[2]
  /\ TemposAtZero(redecoded.value) = {90}
  /\ SameNoteTuples(sequence.notes, redecoded.value.notes)

(***************************************************************************)
(* Properties of the events of the three types, under SpecEvents.          *)
(***************************************************************************)
\* the number of events of a field on the instruments before the n-th
RECURSIVE Offset(_, _, _)
Offset(instruments, field, n) ==
  IF n = 1 THEN 0
  ELSE Offset(instruments, field, n - 1) + Len(instruments[n - 1][field])

InOrder(decoded, field, Same(_, _)) ==
  LET instruments == midi_data.midi.instruments
  IN  /\ Len(decoded) = Offset(instruments, field, Len(instruments) + 1)
      /\ \A n \in DOMAIN instruments :
           \A i \in DOMAIN instruments[n][field] :
             LET d == decoded[Offset(instruments, field, n) + i]
             IN  /\ d.instrument = n - 1
                 /\ d.program = instruments[n].program
                 /\ Same(d, instruments[n][field][i])

SameNote(d, e) ==
  /\ d.start_time = e.start /\ d.end_time = e.end
  /\ d.pitch = e.pitch /\ d.velocity = e.velocity

SameBend(d, e) == d.time = e.time /\ d.bend = e.pitch

SameControl(d, e) ==
  d.time = e.time /\ d.control_number = e.number /\ d.control_value = e.value

Encoded == op = "sequence_proto_to_pretty_midi"

\* the output instrument that carries the events of a key, and nothing else
Carries(instrument, key) ==
  /\ instrument.program = key[2]
  /\ instrument.notes = KeyNotes(sequence, key)
  /\ instrument.pitch_bends = KeyBends(sequence, key)
  /\ instrument.control_changes = KeyControls(sequence, key)

\* C6, as stated: the events of each (instrument, program) key of a sequence are
\* on an output instrument of their own: every key has its instrument, and two
\* keys never share one.
EachKeyHasItsInstrument ==
  Encoded =>
    \E f \in [EventKeys(sequence) -> DOMAIN pm.instruments] :
      /\ \A k \in EventKeys(sequence) : Carries(pm.instruments[f[k]], k)
      /\ \A k1 \in EventKeys(sequence) : \A k2 \in EventKeys(sequence) :
           k1 # k2 => f[k1] # f[k2]

\* C6 where at most one key has instrument 0: there every key has its instrument.
EachKeyHasItsInstrumentWithOneKeyAtZero ==
  (Encoded /\ Cardinality({k \in EventKeys(sequence) : k[1] = 0}) <= 1) =>
    \E f \in [EventKeys(sequence) -> DOMAIN pm.instruments] :
      /\ \A k \in EventKeys(sequence) : Carries(pm.instruments[f[k]], k)
      /\ \A k1 \in EventKeys(sequence) : \A k2 \in EventKeys(sequence) :
           k1 # k2 => f[k1] # f[k2]

(***************************************************************************)
(* Properties of the tempos, under SpecTempos.                             *)
(***************************************************************************)
\* C9: for a sequence of n >= 1 tempos whose first is at time 0, the encoded
\* object starts at tempos[0].bpm and has exactly n - 1 further breakpoints, one
\* for each later tempo in order, at the tick of its time and with the tick
\* scale 60 / (resolution * bpm).
MultiTempoEncode ==
  (Encoded /\ sequence.tempos # <<>> /\ sequence.tempos[1].time = 0) =>
    /\ Len(pm.tick_scales) = Len(sequence.tempos)
    /\ pm.tick_scales[1].tick = 0
    /\ get_tempo_changes(pm)[1].bpm = sequence.tempos[1].bpm
    /\ \A i \in 2..Len(sequence.tempos) :
         /\ pm.tick_scales[i].tick = TickOf(pm.resolution, sequence.tempos, i)
         /\ pm.tick_scales[i].scale.num * pm.resolution * sequence.tempos[i].bpm
              = 60 * pm.tick_scales[i].scale.den

\* tempos [(0, 120), (2, 90)] at resolution 480
TwoTemposEncoded ==
  /\ Encoded
  /\ sequence.ticks_per_beat = 480
  /\ sequence.tempos = <<[time |-> 0, bpm |-> 120], [time |-> 2, bpm |-> 90]>>
  /\ Len(pm.tick_scales) = 2
  /\ get_tempo_changes(pm) = sequence.tempos
  /\ pm.tick_scales[2].tick = 1920

\* C10, as stated: every tempo of the sequence is in the tempo map of the
\* encoded object, as its initial tempo or as a breakpoint.
EveryTempoEncoded ==
  Encoded =>
    \A i \in DOMAIN sequence.tempos :
      \E j \in DOMAIN pm.tick_scales :
        get_tempo_changes(pm)[j] = sequence.tempos[i]

====
